---- MODULE Spec2Model ----
(***************************************************************************)
(* Provenance-tracked editing of a key/value extraction record:            *)
(*   app/components/json_editor.py  JsonEditor (__init__, _load_json,      *)
(*                                  render)                                *)
(*   app/utils/json_manager.py      update_json_with_provenance,           *)
(*                                  get_field_history,                     *)
(*                                  export_provenance_report               *)
(*   app/utils/file_handling.py     load_file                              *)
(*   app/main.py                    main (one run of the Streamlit page)   *)
(*                                                                         *)
(* JSON objects are functions from key strings to values, JSON lists are   *)
(* sequences.  Text that the code joins, splits or strips (the rules       *)
(* column) is a sequence of one-character strings; text that the code      *)
(* only compares (names, values, types, notes) is a TLA+ string.           *)
(***************************************************************************)
EXTENDS Integers, Sequences, FiniteSets, TLC

VARIABLES
    files,          \* the ./temp directory: path -> file content
    clock,          \* wall clock, in ticks of 1/TicksPerSecond second
    document_path,  \* st.session_state.document_path
    json_path,      \* st.session_state.json_path
    user_info,      \* st.session_state.user_info
    uploaded_json,  \* the "json_uploader" widget: NoUpload or [name, content]
    data,           \* JsonEditor.data of the editor of the last run
    updated_data,   \* what render() / update_json_with_provenance returned
    changes,        \* the Change list of the last render()
    errors,         \* what the last operation reported through st.error
    prev,           \* history: the in-memory record before the last operation
    submitted,      \* history: the value-set and notes the reviewer submitted
    saves,          \* history: <<path, content>> of every save, oldest first
    pc,             \* the operation that ran last
    call,           \* the utility function called last, with its arguments
    result,         \* what that call returned or raised
    sessions        \* two browser sessions on one ./temp: session -> its state

vars == <<files, clock, document_path, json_path, user_info, uploaded_json,
          data, updated_data, changes, errors, prev, submitted, saves, pc,
          call, result, sessions>>

---------------------------------------------------------------------------
(* Bounds of the model *)

\* rows the reviewer may add in one submission
MaxAdded == 1

\* last tick of the wall clock
MaxClock == 2

\* saves per session
MaxSaves == 2

\* longest provenance log update_json_with_provenance is called on
MaxLog == 2

\* clock ticks per second: strftime("%Y%m%d_%H%M%S") drops what is below a second
TicksPerSecond == 2

---------------------------------------------------------------------------
(* Python values *)

\* Python None (the return value of render() when self.data is falsy)
None == [py |-> "None"]

\* no path in the session (st.session_state.json_path = None)
NoPath == <<>>

\* the uploader widget holds no file
NoUpload == [name |-> NoPath]

\* dict.get(key, default)
Get(d, k, default) == IF k \in DOMAIN d THEN d[k] ELSE default

\* the empty JSON object {}
EmptyObject == [k \in {} |-> <<>>]

\* Python truthiness of a loaded JSON object / of None
Truthy(d) == d # None /\ DOMAIN d # {}

\* d with d[k] = v set (d[k] = v on a dict)
SetKey(d, k, v) == [x \in DOMAIN d \cup {k} |-> IF x = k THEN v ELSE d[x]]

\* no utility function was called
NoCall == [fn |-> ""]

\* the record a failed load falls back to
DefaultRecord == [values |-> <<>>, _provenance |-> <<>>]

---------------------------------------------------------------------------
(* Text of the rules column *)

\* ", ".join(list)
RECURSIVE Join(_)
Join(list) ==
    IF list = <<>> THEN <<>>
    ELSE IF Len(list) = 1 THEN Head(list)
    ELSE Head(list) \o <<",", " ">> \o Join(Tail(list))

\* text.split(",")
RECURSIVE SplitAcc(_, _, _)
SplitAcc(s, cur, acc) ==
    IF s = <<>> THEN Append(acc, cur)
    ELSE IF Head(s) = "," THEN SplitAcc(Tail(s), <<>>, Append(acc, cur))
    ELSE SplitAcc(Tail(s), Append(cur, Head(s)), acc)

Split(s) == SplitAcc(s, <<>>, <<>>)

\* text.strip()
RECURSIVE LStrip(_)
LStrip(s) == IF s # <<>> /\ Head(s) = " " THEN LStrip(Tail(s)) ELSE s

RECURSIVE RStrip(_)
RStrip(s) ==
    IF s # <<>> /\ s[Len(s)] = " " THEN RStrip(SubSeq(s, 1, Len(s) - 1)) ELSE s

Strip(s) == RStrip(LStrip(s))

\* the rules cell of a row of the table: ", ".join(item["rules"]), "" without the key
RulesText(item) == IF "rules" \in DOMAIN item THEN Join(item["rules"]) ELSE <<>>

\* a faulty RulesList: the parts of the split kept untrimmed
RulesListUntrimmed(text) == IF text # <<>> THEN Split(text) ELSE <<>>

\* the rules stored back: [r.strip() for r in rules.split(",")], [] for ""
RulesList(text) ==
    IF text # <<>> THEN [i \in 1..Len(Split(text)) |-> Strip(Split(text)[i])]
    ELSE <<>>

---------------------------------------------------------------------------
(* The table of the data editor *)

\* a JSON string scalar (a cell of the value column)
Str(s) == [str |-> s]

\* values_data: one table row per item of self.data["values"], id = its index
ValuesData(values) ==
    [i \in 1..Len(values) |->
        [id    |-> i - 1,
         name  |-> Get(values[i], "name", ""),
         value |-> Get(values[i], "value", Str("")),
         type  |-> Get(values[i], "type", ""),
         rules |-> RulesText(values[i])]]

\* df.loc[df["id"] == row_id] (the ids of df are 0 .. len(df)-1)
RowAt(df, row_id) == df[row_id + 1]

\* a faulty DfEquals: the two tables compared by identity (edited_df is df)
DfIdentical(edited, df) == FALSE

\* edited_df.equals(df)
DfEquals(edited, df) == edited = df

\* the condition of the "modified" branch: any of the four columns differs
RowDiffers(row, orig) ==
    \/ row.name # orig.name
    \/ row.value # orig.value
    \/ row.type # orig.type
    \/ row.rules # orig.rules

\* a faulty AddedChange: old_value filled with the value of the row
AddedChangeWithOld(row) ==
    [field |-> row.name, old_value |-> row.value, new_value |-> row.value,
     action |-> "added"]

\* the Change records of the three branches
AddedChange(row) ==
    [field |-> row.name, old_value |-> None, new_value |-> row.value,
     action |-> "added"]

\* a faulty ModifiedChange: old_value read from the edited row
ModifiedChangeFromRow(row, orig) ==
    [field |-> row.name, old_value |-> row.value, new_value |-> row.value,
     action |-> "modified"]

ModifiedChange(row, orig) ==
    [field |-> row.name, old_value |-> orig.value, new_value |-> row.value,
     action |-> "modified"]

DeletedChange(orig) ==
    [field |-> orig.name, old_value |-> orig.value, new_value |-> None,
     action |-> "deleted"]

\* a faulty RowChanges: each row compared with the row at its position in df,
\* not with the row of its id
RECURSIVE RowChangesByPosition(_, _, _)
RowChangesByPosition(edited, df, n) ==
    IF edited = <<>> THEN <<>>
    ELSE LET row == Head(edited)
             c == IF df = <<>> THEN <<AddedChange(row)>>
                  ELSE IF RowDiffers(row, Head(df))
                       THEN <<ModifiedChange(row, Head(df))>>
                       ELSE <<>>
         IN  c \o RowChangesByPosition(Tail(edited),
                                       IF df = <<>> THEN df ELSE Tail(df), n)

\* first loop of the diff: additions and modifications, in the order of edited_df;
\* n is len(self.data["values"])
RECURSIVE RowChanges(_, _, _)
RowChanges(edited, df, n) ==
    IF edited = <<>> THEN <<>>
    ELSE LET row == Head(edited)
             c == IF row.id >= n THEN <<AddedChange(row)>>
                  ELSE IF RowDiffers(row, RowAt(df, row.id))
                       THEN <<ModifiedChange(row, RowAt(df, row.id))>>
                       ELSE <<>>
         IN  c \o RowChanges(Tail(edited), df, n)

\* a faulty DeletedIds: the difference taken the other way round
DeletedIdsSwapped(edited, df) ==
    {edited[i].id : i \in DOMAIN edited} \ {df[i].id : i \in DOMAIN df}

\* original_ids - current_ids
DeletedIds(edited, df) ==
    {df[i].id : i \in DOMAIN df} \ {edited[i].id : i \in DOMAIN edited}

\* second loop of the diff: one deletion per deleted id (a set of small ints
\* iterates in ascending order)
DeletedChanges(edited, df) ==
    LET gone == SelectSeq(df, LAMBDA r : r.id \in DeletedIds(edited, df))
    IN  [i \in 1..Len(gone) |-> DeletedChange(gone[i])]

\* the Change list of a submission that differs from the table
ComputeChanges(edited, df) ==
    RowChanges(edited, df, Len(df)) \o DeletedChanges(edited, df)

\* a faulty UpdatedValues: the rules of every row dropped
UpdatedValuesWithoutRules(edited) ==
    [i \in 1..Len(edited) |->
        [name  |-> edited[i].name,
         value |-> edited[i].value,
         type  |-> edited[i].type,
         rules |-> <<>>]]

\* updated_values: every row of edited_df stored back, rules re-split
UpdatedValues(edited) ==
    [i \in 1..Len(edited) |->
        [name  |-> edited[i].name,
         value |-> edited[i].value,
         type  |-> edited[i].type,
         rules |-> RulesList(edited[i].rules)]]

\* a faulty ProvenanceEntry: the notes left out
ProvenanceEntryWithoutNotes(now, user, document, chg, notes) ==
    [timestamp |-> now, user |-> user, document |-> document,
     changes |-> chg, notes |-> ""]

\* the ProvenanceEntry of a commit / of update_json_with_provenance
ProvenanceEntry(now, user, document, chg, notes) ==
    [timestamp |-> now, user |-> user, document |-> document,
     changes |-> chg, notes |-> notes]

\* a faulty AppendEntry: the entry put first (the history view shows newest first)
AppendEntryFirst(log, entry) == <<entry>> \o log

\* list.append(provenance_entry)
AppendEntry(log, entry) == Append(log, entry)

\* "values" and "_provenance" defaulted when missing
EnsureStructure(d) ==
    LET d1 == IF "values" \in DOMAIN d THEN d ELSE SetKey(d, "values", <<>>)
    IN  IF "_provenance" \in DOMAIN d1 THEN d1
        ELSE SetKey(d1, "_provenance", <<>>)

\* whether render() shows the data editor for this record
ShowsEditor(d) == Truthy(d) /\ Len(EnsureStructure(d)["values"]) > 0

\* a faulty RenderChanges: no equals() guard, and the "modified" branch taken
\* for every row
RenderChangesEveryRow(d, edited) ==
    IF ShowsEditor(d)
    THEN [i \in 1..Len(edited) |-> ModifiedChange(edited[i], edited[i])]
    ELSE <<>>

\* the Change list render() computes for the submission `edited`
RenderChanges(d, edited) ==
    LET df == ValuesData(EnsureStructure(d)["values"])
    IN  IF ShowsEditor(d) /\ ~DfEquals(edited, df)
        THEN ComputeChanges(edited, df)
        ELSE <<>>

\* self.data after render(): the structure ensured, and, when the submission
\* differs from the table, the values replaced and, when there are changes,
\* one entry appended
RenderData(d, edited, notes, now, user, path) ==
    IF ~Truthy(d) THEN d
    ELSE LET e   == EnsureStructure(d)
             df  == ValuesData(e["values"])
             chg == RenderChanges(d, edited)
         IN  IF ShowsEditor(d) /\ ~DfEquals(edited, df)
             THEN LET r == SetKey(e, "values", UpdatedValues(edited))
                  IN  IF chg # <<>>
                      THEN SetKey(r, "_provenance",
                               AppendEntry(r["_provenance"],
                                   ProvenanceEntry(now, user, path, chg, notes)))
                      ELSE r
             ELSE e

\* a faulty RenderReturn: the record handed back after the values were replaced
\* and before the entry was appended
RenderReturnBeforeAppend(d, edited, notes, now, user, path) ==
    IF ~Truthy(d) THEN None
    ELSE SetKey(RenderData(d, edited, notes, now, user, path), "_provenance",
                EnsureStructure(d)["_provenance"])

\* what render() returns: None for a falsy record, else self.data
RenderReturn(d, edited, notes, now, user, path) ==
    IF ~Truthy(d) THEN None
    ELSE RenderData(d, edited, notes, now, user, path)

\* the options of the type column
Types == {"string", "number", "boolean", "date", "array", "object"}

\* what render() reports through st.warning when it commits: the commit has no
\* check of names or types and no st.warning call
RenderWarnings(edited) == {}

\* what render() reports through st.error
RenderErrors(d) == IF ~Truthy(d) THEN {"No JSON data available to edit"} ELSE {}

---------------------------------------------------------------------------
(* app/utils/json_manager.py *)

\* what update_json_with_provenance returns: a shallow copy of json_data whose
\* log has the new entry appended
UpdateJsonResult(json_data, entry) ==
    SetKey(json_data, "_provenance",
           AppendEntry(Get(json_data, "_provenance", <<>>), entry))

\* json_data after the call: the copy is shallow, so a "_provenance" list that
\* was already there is the list the entry was appended to
UpdateJsonArgAfter(json_data, entry) ==
    IF "_provenance" \in DOMAIN json_data
    THEN SetKey(json_data, "_provenance",
                AppendEntry(json_data["_provenance"], entry))
    ELSE json_data

\* the item get_field_history builds for change c of entry e
HistoryItem(e, c) ==
    [timestamp |-> e.timestamp, user |-> e.user, old_value |-> c.old_value,
     new_value |-> c.new_value, action |-> c.action,
     notes |-> Get(e, "notes", "")]

\* the inner loop of get_field_history over the changes of entry e
RECURSIVE ChangeHistory(_, _, _)
ChangeHistory(e, chgs, field_name) ==
    IF chgs = <<>> THEN <<>>
    ELSE (IF Head(chgs).field = field_name THEN <<HistoryItem(e, Head(chgs))>>
          ELSE <<>>)
         \o ChangeHistory(e, Tail(chgs), field_name)

\* the outer loop of get_field_history over the entries of the log
RECURSIVE EntryHistory(_, _)
EntryHistory(log, field_name) ==
    IF log = <<>> THEN <<>>
    ELSE ChangeHistory(Head(log), Head(log).changes, field_name)
         \o EntryHistory(Tail(log), field_name)

\* a faulty GetFieldHistory: the log walked newest entry first
RECURSIVE GetFieldHistoryNewestFirst(_, _)
GetFieldHistoryNewestFirst(json_data, field_name) ==
    IF "_provenance" \notin DOMAIN json_data THEN <<>>
    ELSE LET log == json_data["_provenance"]
         IN  IF log = <<>> THEN <<>>
             ELSE ChangeHistory(log[Len(log)], log[Len(log)].changes, field_name)
                  \o GetFieldHistoryNewestFirst(
                         SetKey(json_data, "_provenance",
                                SubSeq(log, 1, Len(log) - 1)), field_name)

\* get_field_history(json_data, field_name)
GetFieldHistory(json_data, field_name) ==
    IF "_provenance" \notin DOMAIN json_data THEN <<>>
    ELSE EntryHistory(json_data["_provenance"], field_name)

\* e put into a list sorted by timestamp, behind the entries that are not later
RECURSIVE InsertByTimestamp(_, _)
InsertByTimestamp(e, sorted) ==
    IF sorted = <<>> THEN <<e>>
    ELSE IF Head(sorted).timestamp <= e.timestamp
         THEN <<Head(sorted)>> \o InsertByTimestamp(e, Tail(sorted))
         ELSE <<e>> \o sorted

\* sorted(log, key=lambda x: x["timestamp"]): a new list, stable
RECURSIVE SortedByTimestamp(_)
SortedByTimestamp(log) ==
    IF log = <<>> THEN <<>>
    ELSE InsertByTimestamp(log[Len(log)],
                           SortedByTimestamp(SubSeq(log, 1, Len(log) - 1)))

---------------------------------------------------------------------------
(* Files *)

\* a file whose content json.load rejects
Malformed == [valid |-> FALSE]

\* a file holding the JSON object obj
JsonFile(obj) == [valid |-> TRUE, obj |-> obj]

\* a faulty LoadJson: the fallback is an empty dict
LoadJsonEmptyFallback(fs, path) ==
    IF path \in DOMAIN fs /\ fs[path].valid THEN fs[path].obj ELSE EmptyObject

\* JsonEditor._load_json: the parsed file, or the default record when open()
\* or json.load() raises
LoadJson(fs, path) ==
    IF path \in DOMAIN fs /\ fs[path].valid THEN fs[path].obj ELSE DefaultRecord

\* the st.error of _load_json
LoadErrors(fs, path) ==
    IF path \in DOMAIN fs /\ fs[path].valid THEN {}
    ELSE {"Error loading JSON data"}

\* a faulty WriteFile: the file is opened for writing and nothing is written
WriteFileTruncated(fs, path, content) ==
    [p \in DOMAIN fs \cup {path} |-> IF p = path THEN Malformed ELSE fs[p]]

\* fs after open(path, 'w') and a write of content
WriteFile(fs, path, content) ==
    [p \in DOMAIN fs \cup {path} |-> IF p = path THEN content ELSE fs[p]]

\* the empty ./temp directory
NoFiles == [p \in {} |-> Malformed]

\* a path in a directory that does not exist: open(path, 'w') raises
Unwritable == <<"nodir", "report">>

\* whether open(path, 'w') succeeds
Writable(path) == path # Unwritable

\* what export_provenance_report returns: False without the "_provenance" key
\* or when open()/json.dump() raises, True otherwise
ExportResult(json_data, output_path) ==
    IF "_provenance" \notin DOMAIN json_data THEN FALSE
    ELSE Writable(output_path)

\* the files after export_provenance_report: the sorted log dumped to
\* output_path
ExportFiles(fs, json_data, output_path) ==
    IF "_provenance" \in DOMAIN json_data /\ Writable(output_path)
    THEN WriteFile(fs, output_path,
                   JsonFile(SortedByTimestamp(json_data["_provenance"])))
    ELSE fs

\* a faulty ExportArgAfter: the log sorted in place (list.sort)
ExportArgSortedInPlace(json_data) ==
    IF "_provenance" \in DOMAIN json_data
    THEN SetKey(json_data, "_provenance",
                SortedByTimestamp(json_data["_provenance"]))
    ELSE json_data

\* json_data after export_provenance_report: sorted() built a new list
ExportArgAfter(json_data) == json_data

\* a faulty LoadFile: invalid JSON answered with the default record
LoadFileDefaulting(fs, file_path) ==
    IF file_path \notin DOMAIN fs THEN [raised |-> "FileNotFoundError"]
    ELSE [returned |-> LoadJson(fs, file_path)]

\* load_file(file_path) on a .json path: the parsed content, or the exception
\* raised
LoadFile(fs, file_path) ==
    IF file_path \notin DOMAIN fs THEN [raised |-> "FileNotFoundError"]
    ELSE IF ~fs[file_path].valid THEN [raised |-> "ValueError"]
    ELSE [returned |-> fs[file_path].obj]

---------------------------------------------------------------------------
(* Inputs: persisted records, users, notes, submissions *)

Required == <<"r">>
MinZero == <<"m">>
\* one rule whose text holds a comma
Range == <<"m", ",", "n">>

Amount == [name |-> "amount", value |-> Str("100"), type |-> "number",
           rules |-> <<>>]
Invoice == [name |-> "invoice", value |-> Str("INV"), type |-> "string",
            rules |-> <<Required, MinZero>>]
\* an item without value, type and rules keys
Bare == [name |-> "total"]
Ranged == [name |-> "qty", value |-> Str("1"), type |-> "number",
           rules |-> <<Range>>]

\* an item whose one rule starts with a blank
Padded == [name |-> "code", value |-> Str("x"), type |-> "string",
           rules |-> << <<" ", "r">> >>]
\* an item whose one rule is the empty string
Blank == [name |-> "note", value |-> Str("x"), type |-> "string",
          rules |-> << <<>> >>]

Reviewer == [name |-> "Test User", email |-> "test@example.com"]
NoUser == [name |-> "", email |-> ""]
Users == {NoUser, Reviewer}

\* an entry of an earlier session
OldEntry ==
    ProvenanceEntry(0, Reviewer, <<"old">>,
        <<[field |-> "amount", old_value |-> Str("90"), new_value |-> Str("100"),
           action |-> "modified"]>>, "first pass")

\* the JSON objects a persisted extraction file may hold
PersistedObjects ==
    { EmptyObject,
      [values |-> <<>>, _provenance |-> <<>>],
      [values |-> <<Amount>>, _provenance |-> <<>>],
      [values |-> <<Amount>>],
      [_provenance |-> <<OldEntry>>],
      [source |-> <<>>],
      [values |-> <<Bare>>, _provenance |-> <<>>],
      [values |-> <<Ranged>>, _provenance |-> <<OldEntry>>],
      [values |-> <<Padded>>, _provenance |-> <<>>],
      [values |-> <<Blank>>, _provenance |-> <<>>],
      [values |-> <<Amount, Invoice>>, _provenance |-> <<OldEntry>>] }

Notes == {"", "corrected OCR error"}

\* what the reviewer may type into a cell
EditNames == {"amount", "vat", ""}
EditValues == {Str("100"), Str("150")}
EditTypes == {"number", "date"}
EditRules == {<<>>, Required}

\* a row with at most one cell retyped (the id column is disabled)
CellVariants(row) ==
    {row}
    \cup {[row EXCEPT !.name = n] : n \in EditNames}
    \cup {[row EXCEPT !.value = v] : v \in EditValues}
    \cup {[row EXCEPT !.type = t] : t \in EditTypes}
    \cup {[row EXCEPT !.rules = r] : r \in EditRules}

\* the rows of df the reviewer kept, each possibly retyped, in their order
RECURSIVE KeptRows(_)
KeptRows(df) ==
    IF df = <<>> THEN {<<>>}
    ELSE LET rest == KeptRows(Tail(df))
         IN  rest \cup {<<v>> \o t : v \in CellVariants(Head(df)), t \in rest}

\* a row added under the table, with the next id
NewRows(id) ==
    { [id |-> id, name |-> "vat", value |-> Str("7"), type |-> "number",
       rules |-> <<>>],
      [id |-> id, name |-> "amount", value |-> Str("150"), type |-> "number",
       rules |-> Required] }

\* up to k rows added under the table, ids from n on
RECURSIVE AddedRows(_, _)
AddedRows(n, k) ==
    IF k = 0 THEN {<<>>}
    ELSE {<<>>} \cup {<<r>> \o t : r \in NewRows(n), t \in AddedRows(n + 1, k - 1)}

\* df with one new row put between two of its rows, no cell of df retyped: the
\* rows of df keep their id cell (the column is disabled), the new row has the
\* next id
InsertedSets(df) ==
    {SubSeq(df, 1, k) \o <<r>> \o SubSeq(df, k + 1, Len(df)) :
        k \in 1..(Len(df) - 1), r \in NewRows(Len(df))}

\* the value-sets the reviewer may submit for the table df
EditedSets(df) ==
    {k \o a : k \in KeptRows(df), a \in AddedRows(Len(df), MaxAdded)}
    \cup InsertedSets(df)

---------------------------------------------------------------------------
(* The editor on its own: JsonEditor(path, user_info), then render(), and     *)
(* update_json_with_provenance on the record in memory                        *)

\* the path the editor is constructed on
EditorPath == <<"a">>

\* the Change lists update_json_with_provenance is called with
CallerChanges ==
    { <<>>,
      <<[field |-> "amount", old_value |-> Str("100"), new_value |-> Str("150"),
         action |-> "modified"]>> }

\* the log of a record in memory ([] without the key)
LogOf(d) == IF d = None THEN <<>> ELSE Get(d, "_provenance", <<>>)

\* the values of a record in memory ([] without the key)
ValuesOf(d) == IF d = None THEN <<>> ELSE Get(d, "values", <<>>)

InitEditor ==
    /\ files \in {NoFiles}
          \cup {[p \in {EditorPath} |-> c] :
                  c \in {Malformed} \cup {JsonFile(o) : o \in PersistedObjects}}
    /\ user_info \in Users
    /\ clock = 0
    /\ document_path = NoPath
    /\ json_path = NoPath
    /\ uploaded_json = NoUpload
    /\ data = None
    /\ updated_data = None
    /\ changes = <<>>
    /\ errors = {}
    /\ prev = None
    /\ submitted = [rows |-> <<>>, notes |-> ""]
    /\ saves = <<>>
    /\ pc = "start"
    /\ call = NoCall
    /\ result = None
    /\ sessions = <<>>

\* JsonEditor.__init__
EditorInit ==
    /\ pc = "start"
    /\ json_path' = EditorPath
    /\ data' = LoadJson(files, EditorPath)
    /\ errors' = LoadErrors(files, EditorPath)
    /\ pc' = "constructed"
    /\ UNCHANGED <<files, clock, document_path, user_info, uploaded_json,
                   updated_data, changes, prev, submitted, saves>>
    /\ UNCHANGED <<call, result, sessions>>

\* JsonEditor.render, the reviewer submitting edited with notes
EditorRender ==
    /\ pc = "constructed"
    /\ \E edited \in EditedSets(ValuesData(ValuesOf(data))), notes \in Notes :
          /\ submitted' = [rows |-> edited, notes |-> notes]
          /\ changes' = RenderChanges(data, edited)
          /\ data' = RenderData(data, edited, notes, clock, user_info, json_path)
          /\ updated_data' =
                 RenderReturn(data, edited, notes, clock, user_info, json_path)
    /\ errors' = RenderErrors(data)
    /\ prev' = data
    /\ pc' = "rendered"
    /\ UNCHANGED <<files, clock, document_path, json_path, user_info,
                   uploaded_json, saves, call, result, sessions>>

\* update_json_with_provenance(json_data = the record in memory, ...)
UpdateJson ==
    /\ pc \in {"constructed", "updated"}
    /\ Len(LogOf(data)) < MaxLog
    /\ \E chg \in CallerChanges, notes \in Notes :
          LET entry == ProvenanceEntry(clock, user_info, json_path, chg, notes)
          IN  /\ updated_data' = UpdateJsonResult(data, entry)
              /\ data' = UpdateJsonArgAfter(data, entry)
              /\ submitted' = [rows |-> <<>>, notes |-> notes]
              /\ changes' = chg
    /\ prev' = data
    /\ errors' = {}
    /\ pc' = "updated"
    /\ UNCHANGED <<files, clock, document_path, json_path, user_info,
                   uploaded_json, saves, call, result, sessions>>

NextEditor == EditorInit \/ EditorRender \/ UpdateJson

SpecEditor == InitEditor /\ [][NextEditor]_vars

---------------------------------------------------------------------------
(* The utility functions on their own: get_field_history and                  *)
(* export_provenance_report on a record in memory, load_file on ./temp        *)

\* entries of a log with a skewed clock; LateEntry changes "amount" twice
LateEntry ==
    ProvenanceEntry(2, Reviewer, <<"a">>,
        <<[field |-> "amount", old_value |-> Str("100"), new_value |-> Str("150"),
           action |-> "modified"],
          [field |-> "vat", old_value |-> None, new_value |-> Str("7"),
           action |-> "added"],
          [field |-> "amount", old_value |-> Str("150"), new_value |-> None,
           action |-> "deleted"]>>, "corrected OCR error")

\* an entry written without the "notes" key
EarlyEntry ==
    [timestamp |-> 1, user |-> NoUser, document |-> <<"a">>,
     changes |-> <<[field |-> "amount", old_value |-> None,
                    new_value |-> Str("100"), action |-> "added"]>>]

\* an entry of the same instant as LateEntry
SameTimeEntry ==
    ProvenanceEntry(2, NoUser, <<"a">>,
        <<[field |-> "vat", old_value |-> Str("7"), new_value |-> Str("8"),
           action |-> "modified"]>>, "")

\* the records the utility functions are called on
ManagerRecords ==
    { [values |-> <<Amount>>],
      [values |-> <<>>, _provenance |-> <<>>],
      [values |-> <<Amount>>, _provenance |-> <<OldEntry>>],
      [values |-> <<Amount>>, _provenance |-> <<LateEntry, EarlyEntry>>],
      [values |-> <<Amount>>,
       _provenance |-> <<LateEntry, EarlyEntry, SameTimeEntry>>],
      [values |-> <<Amount>>,
       _provenance |-> <<SameTimeEntry, LateEntry, OldEntry>>] }

\* the field names asked for
FieldNames == {"amount", "vat", "total"}

\* the targets of the report
OutputPaths == {<<"report">>, Unwritable}

\* the paths load_file is called on
LoadPaths == {<<"a">>, <<"report">>}

InitManager ==
    /\ files \in {NoFiles, [p \in {<<"a">>} |-> Malformed],
                  [p \in {<<"a">>} |-> JsonFile(DefaultRecord)]}
    /\ data \in ManagerRecords
    /\ user_info = NoUser
    /\ clock = 0
    /\ document_path = NoPath
    /\ json_path = NoPath
    /\ uploaded_json = NoUpload
    /\ updated_data = None
    /\ changes = <<>>
    /\ errors = {}
    /\ prev = None
    /\ submitted = [rows |-> <<>>, notes |-> ""]
    /\ saves = <<>>
    /\ pc = "start"
    /\ call = NoCall
    /\ result = None
    /\ sessions = <<>>

\* get_field_history(the record in memory, field_name)
GetFieldHistoryCall ==
    /\ \E field_name \in FieldNames :
          /\ call' = [fn |-> "get_field_history", field_name |-> field_name]
          /\ result' = GetFieldHistory(data, field_name)
    /\ prev' = data
    /\ pc' = "called"
    /\ UNCHANGED <<files, clock, document_path, json_path, user_info,
                   uploaded_json, data, updated_data, changes, errors,
                   submitted, saves, sessions>>

\* export_provenance_report(the record in memory, output_path)
ExportCall ==
    /\ \E output_path \in OutputPaths :
          /\ call' = [fn |-> "export_provenance_report",
                      output_path |-> output_path]
          /\ result' = ExportResult(data, output_path)
          /\ files' = ExportFiles(files, data, output_path)
    /\ data' = ExportArgAfter(data)
    /\ prev' = data
    /\ pc' = "called"
    /\ UNCHANGED <<clock, document_path, json_path, user_info, uploaded_json,
                   updated_data, changes, errors, submitted, saves, sessions>>

\* load_file(file_path)
LoadFileCall ==
    /\ \E file_path \in LoadPaths :
          /\ call' = [fn |-> "load_file", file_path |-> file_path]
          /\ result' = LoadFile(files, file_path)
    /\ prev' = data
    /\ pc' = "called"
    /\ UNCHANGED <<files, clock, document_path, json_path, user_info,
                   uploaded_json, data, updated_data, changes, errors,
                   submitted, saves, sessions>>

NextManager == GetFieldHistoryCall \/ ExportCall \/ LoadFileCall

SpecManager == InitManager /\ [][NextManager]_vars

---------------------------------------------------------------------------
(* The session: one action per widget interaction, each a whole run of main() *)

\* the document the reviewer uploads (./temp/<name of the document>)
DocPath == <<"doc">>

\* the names of the JSON files the reviewer may upload (a.json)
UploadNames == {<<"a">>}

\* what an uploaded JSON file may hold
UploadContents ==
    { Malformed,
      JsonFile([values |-> <<Amount>>, _provenance |-> <<>>]) }

\* the notes typed in a session
SessionNotes == {"corrected OCR error"}

\* datetime.now().strftime("%Y%m%d_%H%M%S"): the clock cut to the second
Timestamp(now) == now \div TicksPerSecond

\* ./temp/{basename of path without extension}_edited_{timestamp}.json
NewPath(path, ts) == Append(path, ts)

\* what the page shows when open(new_path, 'w') raises: main() does not catch
\* the exception
SaveFailure == "OSError"

\* a faulty PathAfterSave: the session switched to the new path although the
\* write failed
PathAfterSaveAlways(path, dest, write_ok) == dest

\* st.session_state.json_path after a save attempt: the assignment follows the
\* write and is skipped when the write raises
PathAfterSave(path, dest, write_ok) == IF write_ok THEN dest ELSE path

\* the submissions explored in a session: the table as it is, the value of the
\* first row retyped, the first row deleted
SessionEdits(df) ==
    {df}
    \cup {[df EXCEPT ![i].value = v] : i \in {1} \cap DOMAIN df, v \in EditValues}
    \cup {Tail(df) : i \in {1} \cap DOMAIN df}

\* the record main() hands to the editor in a run whose uploader holds up_json
RunFiles(up_json) ==
    IF up_json # NoUpload THEN WriteFile(files, up_json.name, up_json.content)
    ELSE files

RunJsonPath(up_json) ==
    IF up_json # NoUpload THEN up_json.name ELSE json_path

\* one run of main(): the sidebar (user, uploads), the editor, the save button.
\* widget_user: the Name/Email inputs; up_doc: the document uploader holds a
\* file; up_json: the JSON uploader; edited, notes: the data editor and the
\* notes area; save: "Save Edited Data" was clicked; write_ok: ./temp can be
\* written to in this run
PageRun(widget_user, up_doc, up_json, edited, notes, save, write_ok) ==
    LET user1  == IF widget_user.name # "" /\ widget_user.email # ""
                  THEN widget_user ELSE user_info
        doc1   == IF up_doc THEN DocPath ELSE document_path
        files1 == RunFiles(up_json)
        path1  == RunJsonPath(up_json)
    IN  /\ user_info' = user1
        /\ document_path' = doc1
        /\ uploaded_json' = up_json
        /\ submitted' = [rows |-> edited, notes |-> notes]
        /\ pc' = "run"
        /\ UNCHANGED <<clock, call, result, sessions>>
        /\ IF doc1 = NoPath \/ path1 = NoPath
           THEN /\ files' = files1
                /\ json_path' = path1
                /\ data' = None
                /\ updated_data' = None
                /\ prev' = None
                /\ changes' = <<>>
                /\ errors' = {}
                /\ UNCHANGED saves
           ELSE LET d0   == LoadJson(files1, path1)
                    ret  == RenderReturn(d0, edited, notes, clock, user1, path1)
                    dest == NewPath(path1, Timestamp(clock))
                IN  /\ prev' = d0
                    /\ data' = RenderData(d0, edited, notes, clock, user1, path1)
                    /\ updated_data' = ret
                    /\ changes' = RenderChanges(d0, edited)
                    /\ errors' = LoadErrors(files1, path1) \cup RenderErrors(d0)
                                  \cup (IF save /\ Truthy(ret) /\ ~write_ok
                                        THEN {SaveFailure} ELSE {})
                    /\ IF save /\ Truthy(ret) /\ write_ok
                       THEN /\ files' = WriteFile(files1, dest, JsonFile(ret))
                            /\ json_path' = PathAfterSave(path1, dest, write_ok)
                            /\ saves' = Append(saves,
                                   [path    |-> dest,
                                    content |-> JsonFile(ret),
                                    source  |-> path1,
                                    fresh   |-> dest \notin DOMAIN files1])
                       ELSE /\ files' = files1
                            /\ json_path' =
                                   IF save /\ Truthy(ret)
                                   THEN PathAfterSave(path1, dest, write_ok)
                                   ELSE path1
                            /\ UNCHANGED saves

\* the table of the run whose uploader holds up_json
RunTable(up_json) ==
    ValuesData(ValuesOf(LoadJson(RunFiles(up_json), RunJsonPath(up_json))))

\* what the data editor may return in the run whose uploader holds up_json: a
\* widget that was not on the page in the previous run holds no edits yet
RunEdits(up_json) ==
    IF ShowsEditor(prev) THEN SessionEdits(RunTable(up_json))
    ELSE {RunTable(up_json)}

Init ==
    /\ files = NoFiles
    /\ clock = 0
    /\ document_path = NoPath
    /\ json_path = NoPath
    /\ user_info = NoUser
    /\ uploaded_json = NoUpload
    /\ data = None
    /\ updated_data = None
    /\ changes = <<>>
    /\ errors = {}
    /\ prev = None
    /\ submitted = [rows |-> <<>>, notes |-> ""]
    /\ saves = <<>>
    /\ pc = "start"
    /\ call = NoCall
    /\ result = None
    /\ sessions = <<>>

\* the reviewer fills in Name and Email
SetUser ==
    /\ user_info = NoUser
    /\ \E edited \in RunEdits(uploaded_json), n \in SessionNotes :
          PageRun(Reviewer, FALSE, uploaded_json, edited, n, FALSE, TRUE)

\* the reviewer uploads the document
UploadDocument ==
    /\ document_path = NoPath
    /\ \E edited \in RunEdits(uploaded_json), n \in SessionNotes :
          PageRun(NoUser, TRUE, uploaded_json, edited, n, FALSE, TRUE)

\* the reviewer uploads a JSON extraction
UploadJson ==
    \E name \in UploadNames, c \in UploadContents :
        LET up == [name |-> name, content |-> c]
        IN  /\ up # uploaded_json
            /\ \E edited \in RunEdits(up), n \in SessionNotes :
                  PageRun(NoUser, FALSE, up, edited, n, FALSE, TRUE)

\* the reviewer removes the file from the JSON uploader
ClearUpload ==
    /\ uploaded_json # NoUpload
    /\ \E edited \in RunEdits(NoUpload), n \in SessionNotes :
          PageRun(NoUser, FALSE, NoUpload, edited, n, FALSE, TRUE)

\* the reviewer edits the table or the notes
Edit ==
    /\ ShowsEditor(prev)
    /\ \E edited \in RunEdits(uploaded_json), notes \in SessionNotes :
          PageRun(NoUser, FALSE, uploaded_json, edited, notes, FALSE, TRUE)

\* the reviewer clicks "Save Edited Data"
ClickSave ==
    /\ document_path # NoPath
    /\ json_path # NoPath
    /\ Len(saves) < MaxSaves
    /\ \E edited \in RunEdits(uploaded_json), notes \in SessionNotes,
          write_ok \in BOOLEAN :
          PageRun(NoUser, FALSE, uploaded_json, edited, notes, TRUE, write_ok)

\* time passes
Tick ==
    /\ clock < MaxClock
    /\ clock' = clock + 1
    /\ UNCHANGED <<files, document_path, json_path, user_info, uploaded_json,
                   data, updated_data, changes, errors, prev, submitted, saves,
                   pc, call, result, sessions>>

Next ==
    \/ SetUser
    \/ UploadDocument
    \/ UploadJson
    \/ ClearUpload
    \/ Edit
    \/ ClickSave
    \/ Tick

Spec == Init /\ [][Next]_vars

---------------------------------------------------------------------------
(* Two sessions of the page on one ./temp directory and one clock: each has   *)
(* its own st.session_state and widgets, and every interaction in a session   *)
(* is a whole run of main() in that session                                   *)

Sessions == {1, 2}

\* st.session_state of a session that has just opened the page, its JSON
\* uploader empty
FreshSession ==
    [document_path |-> NoPath, json_path |-> NoPath, user_info |-> NoUser,
     uploaded_json |-> NoUpload]

\* the upload of the extraction file both sessions work on
SharedUpload ==
    [name |-> <<"a">>,
     content |-> JsonFile([values |-> <<Amount>>, _provenance |-> <<>>])]

\* ./temp after the upload block of a run
SessionFiles(fs, up_json) ==
    IF up_json # NoUpload THEN WriteFile(fs, up_json.name, up_json.content)
    ELSE fs

\* st.session_state.json_path after the upload block of a run
SessionJsonPath(sess, up_json) ==
    IF up_json # NoUpload THEN up_json.name ELSE sess.json_path

\* the table the editor of the run shows
SessionTable(sess, fs, up_json) ==
    ValuesData(ValuesOf(LoadJson(SessionFiles(fs, up_json),
                                 SessionJsonPath(sess, up_json))))

\* what the data editor may return in a run of the session: edits only when the
\* page of the previous run had the editor on it
SessionSubmissions(sess, fs, up_json) ==
    IF sess.document_path # NoPath /\ sess.json_path # NoPath
    THEN SessionEdits(SessionTable(sess, fs, up_json))
    ELSE {SessionTable(sess, fs, up_json)}

\* one run of main() in a session with state sess, on the files fs at time
\* now: the new session state, the new files and the save made, if any
SessionRun(sess, fs, now, widget_user, up_doc, up_json, edited, notes, save, write_ok) ==
    LET user1  == IF widget_user.name # "" /\ widget_user.email # ""
                  THEN widget_user ELSE sess.user_info
        doc1   == IF up_doc THEN DocPath ELSE sess.document_path
        files1 == SessionFiles(fs, up_json)
        path1  == SessionJsonPath(sess, up_json)
        ret    == IF doc1 = NoPath \/ path1 = NoPath THEN None
                  ELSE RenderReturn(LoadJson(files1, path1), edited, notes, now,
                                    user1, path1)
        saving == save /\ Truthy(ret) /\ write_ok
        dest   == NewPath(path1, Timestamp(now))
    IN  [session |-> [document_path |-> doc1,
                      json_path     |-> IF saving THEN dest ELSE path1,
                      user_info     |-> user1,
                      uploaded_json |-> up_json],
         files   |-> IF saving THEN WriteFile(files1, dest, JsonFile(ret))
                     ELSE files1,
         saved   |-> IF saving
                     THEN <<[path    |-> dest,
                             content |-> JsonFile(ret),
                             source  |-> path1,
                             fresh   |-> dest \notin DOMAIN files1]>>
                     ELSE <<>>]

\* the effect of a run of session s on the shared state
RunIn(s, up_doc, up_json, save) ==
    \E edited \in SessionSubmissions(sessions[s], files, up_json),
       notes \in SessionNotes, write_ok \in {TRUE} \cup {~save} :
        LET r == SessionRun(sessions[s], files, clock, NoUser, up_doc, up_json,
                            edited, notes, save, write_ok)
        IN  /\ sessions' = [sessions EXCEPT ![s] = r.session]
            /\ files' = r.files
            /\ saves' = saves \o [i \in DOMAIN r.saved |->
                                    [session |-> s, path |-> r.saved[i].path,
                                     content |-> r.saved[i].content,
                                     source |-> r.saved[i].source,
                                     fresh |-> r.saved[i].fresh]]
            /\ pc' = "run"
            /\ UNCHANGED <<clock, document_path, json_path, user_info,
                           uploaded_json, data, updated_data, changes, errors,
                           prev, submitted, call, result>>

InitTwo ==
    /\ sessions = [s \in Sessions |-> FreshSession]
    /\ files = NoFiles
    /\ clock = 0
    /\ document_path = NoPath
    /\ json_path = NoPath
    /\ user_info = NoUser
    /\ uploaded_json = NoUpload
    /\ data = None
    /\ updated_data = None
    /\ changes = <<>>
    /\ errors = {}
    /\ prev = None
    /\ submitted = [rows |-> <<>>, notes |-> ""]
    /\ saves = <<>>
    /\ pc = "start"
    /\ call = NoCall
    /\ result = None

\* the reviewer of session s uploads the document
UploadDocumentIn(s) ==
    /\ sessions[s].document_path = NoPath
    /\ RunIn(s, TRUE, sessions[s].uploaded_json, FALSE)

\* the reviewer of session s uploads the extraction file
UploadJsonIn(s) ==
    /\ sessions[s].uploaded_json = NoUpload
    /\ RunIn(s, FALSE, SharedUpload, FALSE)

\* the reviewer of session s removes the file from the JSON uploader
ClearUploadIn(s) ==
    /\ sessions[s].uploaded_json # NoUpload
    /\ RunIn(s, FALSE, NoUpload, FALSE)

\* the reviewer of session s clicks "Save Edited Data"
ClickSaveIn(s) ==
    /\ sessions[s].document_path # NoPath
    /\ SessionJsonPath(sessions[s], sessions[s].uploaded_json) # NoPath
    /\ Len(saves) < MaxSaves
    /\ RunIn(s, FALSE, sessions[s].uploaded_json, TRUE)

NextTwo ==
    \/ \E s \in Sessions : UploadDocumentIn(s)
    \/ \E s \in Sessions : UploadJsonIn(s)
    \/ \E s \in Sessions : ClearUploadIn(s)
    \/ \E s \in Sessions : ClickSaveIn(s)
    \/ Tick

SpecTwo == InitTwo /\ [][NextTwo]_vars

---------------------------------------------------------------------------
(* Claims about the editor, checked under SpecEditor *)

\* the table the editor of the last operation was rendered from
PrevTable == ValuesData(ValuesOf(prev))

\* new is old followed by exactly one entry
ExtendsByOne(new, old) ==
    /\ Len(new) = Len(old) + 1
    /\ \A i \in 1..Len(old) : new[i] = old[i]

\* C1: an append (update_json_with_provenance, or the commit of render) yields
\* the previous log followed by exactly one new entry: the length grows by one
\* and every earlier entry is unchanged at its position.
C1_AppendExtendsLog ==
    /\ pc = "updated" => ExtendsByOne(LogOf(updated_data), LogOf(prev))
    /\ (pc = "rendered" /\ changes # <<>>) => ExtendsByOne(LogOf(data), LogOf(prev))

C1_Witness ==
    /\ pc = "rendered"
    /\ changes # <<>>
    /\ Len(LogOf(prev)) = 1
    /\ Len(LogOf(data)) = 2

\* C3: a submission identical to the table of the current values produces an
\* empty Change list.
C3_IdenticalNoChanges ==
    (pc = "rendered" /\ submitted.rows = PrevTable) => changes = <<>>

C3_Witness ==
    /\ pc = "rendered"
    /\ Len(PrevTable) = 2
    /\ submitted.rows = PrevTable

\* C4 (as claimed): with an empty previous value-set and a submission of exactly
\* one row A, the diff is exactly one Change {A.name, null, A.value, added}.
C4_EmptyPlusOneIsAdded ==
    (pc = "rendered" /\ PrevTable = <<>> /\ Len(submitted.rows) = 1) =>
        changes = << [field     |-> submitted.rows[1].name,
                      old_value |-> None,
                      new_value |-> submitted.rows[1].value,
                      action    |-> "added"] >>

\* C5: a submission with zero rows yields exactly one deleted Change per row of
\* the previous value-set (name, value, null, deleted) and no other Change.
C5_ZeroRowsDeletesAll ==
    (pc = "rendered" /\ submitted.rows = <<>>) =>
        /\ Len(changes) = Len(PrevTable)
        /\ \E perm \in Permutations(DOMAIN PrevTable) :
              \A i \in DOMAIN PrevTable :
                  changes[perm[i]] = [field     |-> PrevTable[i].name,
                                      old_value |-> PrevTable[i].value,
                                      new_value |-> None,
                                      action    |-> "deleted"]

C5_Witness ==
    /\ pc = "rendered"
    /\ submitted.rows = <<>>
    /\ Len(PrevTable) = 2
    /\ Len(changes) = 2

\* the submission differs from the table in the value cell of row i alone
OnlyValueEdited(i) ==
    /\ Len(submitted.rows) = Len(PrevTable)
    /\ submitted.rows[i].value # PrevTable[i].value
    /\ submitted.rows = [PrevTable EXCEPT ![i].value = submitted.rows[i].value]

\* C6: when only the value of one existing row is changed, exactly one entry is
\* appended, with exactly one Change {name, old, new, modified} and the notes,
\* and the row's value in the record is the new one.
C6_ValueEditCommitted ==
    pc = "rendered" =>
        \A i \in DOMAIN PrevTable :
            OnlyValueEdited(i) =>
                /\ ExtendsByOne(LogOf(data), LogOf(prev))
                /\ LogOf(data)[Len(LogOf(data))].changes =
                       << [field     |-> PrevTable[i].name,
                           old_value |-> PrevTable[i].value,
                           new_value |-> submitted.rows[i].value,
                           action    |-> "modified"] >>
                /\ LogOf(data)[Len(LogOf(data))].notes = submitted.notes
                /\ ValuesOf(data)[i].value = submitted.rows[i].value

C6_Witness ==
    /\ pc = "rendered"
    /\ ValuesOf(prev) = <<Amount>>
    /\ LogOf(prev) = <<>>
    /\ OnlyValueEdited(1)
    /\ submitted.rows[1].value = Str("150")
    /\ submitted.notes = "corrected OCR error"
    /\ ValuesOf(data)[1].value = Str("150")

\* C7: a render whose Change list is empty appends no entry and leaves the
\* values as they were.
C7_NoChangesNoCommit ==
    (pc = "rendered" /\ changes = <<>>) =>
        /\ LogOf(data) = LogOf(prev)
        /\ ValuesOf(data) = ValuesOf(prev)

C7_Witness ==
    /\ pc = "rendered"
    /\ changes = <<>>
    /\ ValuesOf(prev) = <<Bare>>
    /\ submitted.rows = PrevTable

\* the file the editor was constructed on parsed as JSON
Parsed == EditorPath \in DOMAIN files /\ files[EditorPath].valid

\* C8: constructed on a missing path or on invalid JSON, the editor holds
\* exactly {values: [], _provenance: []} and a load error is reported.
C8_FailedLoadDefaults ==
    (pc = "constructed" /\ ~Parsed) =>
        /\ data = [values |-> <<>>, _provenance |-> <<>>]
        /\ "Error loading JSON data" \in errors

C8_Witness ==
    /\ pc = "constructed"
    /\ EditorPath \notin DOMAIN files
    /\ errors # {}

\* C9 (as claimed): for every parsed record, render() presents it with a missing
\* "values" and a missing "_provenance" defaulted to [], the empty object
\* included.
C9_MissingKeysDefaulted ==
    (pc = "rendered" /\ Parsed) =>
        /\ updated_data # None
        /\ {"values", "_provenance"} \subseteq DOMAIN updated_data
        /\ "values" \notin DOMAIN prev => updated_data["values"] = <<>>
        /\ "_provenance" \notin DOMAIN prev => updated_data["_provenance"] = <<>>

\* the render committed the submission: the editor was shown and the submission
\* differs from the table
Committed == pc = "rendered" /\ ShowsEditor(prev) /\ submitted.rows # PrevTable

\* row j of the submission is row i of the table with its rules cell untouched,
\* and item i of the previous values has a rules list
RulesCellKept(i, j) ==
    /\ "rules" \in DOMAIN ValuesOf(prev)[i]
    /\ submitted.rows[j].id = i - 1
    /\ submitted.rows[j].rules = PrevTable[i].rules

\* no element of the list holds a comma or starts or ends with a blank, and the
\* list is not the single empty string
CleanRules(list) ==
    /\ list # << <<>> >>
    /\ \A k \in DOMAIN list :
          /\ \A c \in DOMAIN list[k] : list[k][c] # ","
          /\ Strip(list[k]) = list[k]

C16_ValidationWarned ==
    Committed =>
        \A j \in DOMAIN submitted.rows :
            /\ submitted.rows[j].name = "" =>
                  /\ ValuesOf(data) = UpdatedValues(submitted.rows)
                  /\ "MissingName" \in RenderWarnings(submitted.rows) \cup errors
            /\ submitted.rows[j].type \notin Types =>
                  /\ ValuesOf(data) = UpdatedValues(submitted.rows)
                  /\ "UnknownType" \in RenderWarnings(submitted.rows) \cup errors

\* the rows of the submission whose index is beyond the previous rows
AddedRowsOf(rows) == {j \in DOMAIN rows : rows[j].id >= Len(PrevTable)}

\* the previous rows whose index no row of the submission has
DeletedRowsOf(rows) ==
    {i \in DOMAIN PrevTable : \A j \in DOMAIN rows : rows[j].id # i - 1}

\* the rows of the submission that are in the previous value-set too and differ
\* from the row of their index in name, value, type or rules
ModifiedRowsOf(rows) ==
    {j \in DOMAIN rows :
        /\ rows[j].id < Len(PrevTable)
        /\ \E col \in {"name", "value", "type", "rules"} :
              rows[j][col] # PrevTable[rows[j].id + 1][col]}

\* the Change the claim expects for each such row
ExpectedAdded(rows, j) ==
    [field |-> rows[j].name, old_value |-> None, new_value |-> rows[j].value,
     action |-> "added"]

ExpectedDeleted(i) ==
    [field |-> PrevTable[i].name, old_value |-> PrevTable[i].value,
     new_value |-> None, action |-> "deleted"]

ExpectedModified(rows, j) ==
    [field |-> rows[j].name, old_value |-> PrevTable[rows[j].id + 1].value,
     new_value |-> rows[j].value, action |-> "modified"]

\* how many Changes equal to c the claim expects for the submission
ExpectedCount(rows, c) ==
    Cardinality({j \in AddedRowsOf(rows) : ExpectedAdded(rows, j) = c})
    + Cardinality({i \in DeletedRowsOf(rows) : ExpectedDeleted(i) = c})
    + Cardinality({j \in ModifiedRowsOf(rows) : ExpectedModified(rows, j) = c})

\* the Change list is exactly the expected Changes, each as often as expected
DiffExact(rows) ==
    /\ Len(changes) = Cardinality(AddedRowsOf(rows))
                      + Cardinality(DeletedRowsOf(rows))
                      + Cardinality(ModifiedRowsOf(rows))
    /\ \A k \in DOMAIN changes :
          Cardinality({m \in DOMAIN changes : changes[m] = changes[k]})
              = ExpectedCount(rows, changes[k])

\* C19 (as claimed): for every previous and every edited value-set, the Change
\* list holds exactly one added Change per edited row whose index is beyond the
\* previous rows, one deleted Change per previous row whose index is absent
\* from the edited set, one modified Change per row present in both that
\* differs in name, value, type or rules, and nothing for a row present in
\* both with the four fields equal.
C19_DiffCharacterised ==
    pc = "rendered" => DiffExact(submitted.rows)

\* the values of the record are the rows of the submission, one item per row in
\* the order of the rows, the rules cell split into a list
StoredAsSubmitted ==
    /\ Len(ValuesOf(data)) = Len(submitted.rows)
    /\ \A j \in DOMAIN submitted.rows :
          ValuesOf(data)[j] = [name  |-> submitted.rows[j].name,
                               value |-> submitted.rows[j].value,
                               type  |-> submitted.rows[j].type,
                               rules |-> RulesList(submitted.rows[j].rules)]

\* C21 (as claimed): after every submission the values of the record are the
\* submitted value-set, unchanged rows included, whether or not the diff found
\* a change; after a submission identical to the table they equal what they
\* were.
C21_ValuesAlwaysReplaced ==
    (pc = "rendered" /\ ShowsEditor(prev)) =>
        /\ StoredAsSubmitted
        /\ submitted.rows = PrevTable => ValuesOf(data) = ValuesOf(prev)

\* C21 (amended): after a submission that differs from the table the values of
\* the record are the submitted value-set, unchanged rows included; after a
\* submission identical to the table the values are not touched and equal what
\* they were.
C21_ValuesReplacedOnDifference ==
    (pc = "rendered" /\ ShowsEditor(prev)) =>
        /\ submitted.rows # PrevTable => StoredAsSubmitted
        /\ submitted.rows = PrevTable => ValuesOf(data) = ValuesOf(prev)

C21_Witness ==
    /\ Committed
    /\ ValuesOf(prev) = <<Amount, Invoice>>
    /\ OnlyValueEdited(1)
    /\ ValuesOf(data)[1].value = Str("150")
    /\ ValuesOf(data)[2] = Invoice

\* the submission is the table with one new row put behind its row k and in
\* front of its row k + 1, nothing else edited
InsertedBehind(k) ==
    /\ k \in 1..(Len(PrevTable) - 1)
    /\ Len(submitted.rows) = Len(PrevTable) + 1
    /\ submitted.rows[k + 1].id >= Len(PrevTable)
    /\ \A i \in DOMAIN PrevTable :
          submitted.rows[IF i <= k THEN i ELSE i + 1] = PrevTable[i]

\* C23 (as claimed): when a row is inserted in the middle and nothing else is
\* edited, every row that follows the insertion point has a modified Change in
\* the Change list.
C23_InsertShiftsRows ==
    pc = "rendered" =>
        \A k \in DOMAIN PrevTable :
            InsertedBehind(k) =>
                \A j \in (k + 2)..Len(submitted.rows) :
                    \E m \in DOMAIN changes :
                        /\ changes[m].action = "modified"
                        /\ changes[m].field = submitted.rows[j].name

\* C23 (amended): when a row is inserted in the middle and nothing else is
\* edited, no row that follows the insertion point is reported: rows are
\* matched by their id cell, which they keep, and the Change list is exactly
\* the added Change of the inserted row.
C23_InsertReportsOnlyAdded ==
    pc = "rendered" =>
        \A k \in DOMAIN PrevTable :
            InsertedBehind(k) =>
                /\ \A m \in DOMAIN changes : changes[m].action # "modified"
                /\ changes = << [field     |-> submitted.rows[k + 1].name,
                                 old_value |-> None,
                                 new_value |-> submitted.rows[k + 1].value,
                                 action    |-> "added"] >>

C23_Witness ==
    /\ pc = "rendered"
    /\ ValuesOf(prev) = <<Amount, Invoice>>
    /\ InsertedBehind(1)
    /\ submitted.rows[3] = PrevTable[2]
    /\ Len(changes) = 1
    /\ Len(ValuesOf(data)) = 3

---------------------------------------------------------------------------
(* Claims about the utility functions, checked under SpecManager *)

\* the positions <<entry, change>> of the changes of field f in the log
Matches(log, f) ==
    UNION { { <<i, j>> : j \in {k \in DOMAIN log[i].changes :
                                  log[i].changes[k].field = f} } :
            i \in DOMAIN log }

\* position p comes before position q: earlier entry, or same entry and
\* earlier change
Before(p, q) == p[1] < q[1] \/ (p[1] = q[1] /\ p[2] < q[2])

\* C13: get_field_history(record, f) returns exactly one item per Change whose
\* field is f, over all entries, in entry order and within an entry in change
\* order, each with that entry's timestamp, user and notes and that change's
\* old value, new value and action; nothing for other fields; the record is
\* left as it was.
C13_FieldHistoryExact ==
    call.fn = "get_field_history" =>
        LET log == LogOf(prev)
            M   == Matches(log, call.field_name)
        IN  /\ Len(result) = Cardinality(M)
            /\ \A p \in M :
                  result[1 + Cardinality({q \in M : Before(q, p)})] =
                      [timestamp |-> log[p[1]].timestamp,
                       user      |-> log[p[1]].user,
                       notes     |-> IF "notes" \in DOMAIN log[p[1]]
                                     THEN log[p[1]].notes ELSE "",
                       old_value |-> log[p[1]].changes[p[2]].old_value,
                       new_value |-> log[p[1]].changes[p[2]].new_value,
                       action    |-> log[p[1]].changes[p[2]].action]
            /\ data = prev

C13_Witness ==
    /\ call = [fn |-> "get_field_history", field_name |-> "amount"]
    /\ LogOf(prev) = <<LateEntry, EarlyEntry, SameTimeEntry>>
    /\ Len(result) = 3
    /\ result[2].action = "deleted"
    /\ result[3].notes = ""

\* C14: export_provenance_report writes the entries of the log ordered by
\* timestamp ascending, and after the call the record's log holds the same
\* entries in the same order as before.
C14_ExportSortedLogKept ==
    call.fn = "export_provenance_report" =>
        /\ LogOf(data) = LogOf(prev)
        /\ data = prev
        /\ result = TRUE =>
              /\ call.output_path \in DOMAIN files
              /\ files[call.output_path].valid
              /\ LET written == files[call.output_path].obj
                     log     == LogOf(prev)
                 IN  /\ Len(written) = Len(log)
                     /\ \E perm \in Permutations(DOMAIN log) :
                           \A i \in DOMAIN log : written[i] = log[perm[i]]
                     /\ \A i, j \in DOMAIN written :
                           i < j => written[i].timestamp <= written[j].timestamp

C14_Witness ==
    /\ call = [fn |-> "export_provenance_report", output_path |-> <<"report">>]
    /\ result = TRUE
    /\ LogOf(prev) = <<LateEntry, EarlyEntry, SameTimeEntry>>
    /\ files[<<"report">>].obj = <<EarlyEntry, LateEntry, SameTimeEntry>>
    /\ LogOf(data) = <<LateEntry, EarlyEntry, SameTimeEntry>>

\* C15 (as claimed): export_provenance_report returns a boolean, never raises,
\* and returns failure exactly when the log is empty or the target cannot be
\* written.
C15_ExportFailsOnEmptyLog ==
    call.fn = "export_provenance_report" =>
        /\ result \in BOOLEAN
        /\ result = ~(LogOf(prev) = <<>> \/ ~Writable(call.output_path))

\* C17: load_file raises the not-found error when the path does not exist and
\* the malformed-content error when the .json file is not valid JSON; in
\* neither case is a record returned, and no file is modified.
C17_LoadFileErrors ==
    [][call'.fn = "load_file" =>
          /\ files' = files
          /\ call'.file_path \notin DOMAIN files =>
                result' = [raised |-> "FileNotFoundError"]
          /\ (call'.file_path \in DOMAIN files
                /\ ~files[call'.file_path].valid) =>
                result' = [raised |-> "ValueError"]]_vars

C17_Witness ==
    /\ call = [fn |-> "load_file", file_path |-> <<"a">>]
    /\ <<"a">> \in DOMAIN files
    /\ files[<<"a">>] = Malformed
    /\ result = [raised |-> "ValueError"]

---------------------------------------------------------------------------
(* Claims about the session, checked under Spec *)

\* a is b or a beginning of b
IsPrefix(a, b) ==
    /\ Len(a) <= Len(b)
    /\ \A i \in 1..Len(a) : a[i] = b[i]

\* C2 (as claimed): from one run of the page to the next on the same uploaded
\* record, the provenance log of the record in memory never gets shorter and
\* keeps every entry it had.
C2_LogNeverShrinks ==
    [][(data # None /\ data' # None /\ uploaded_json' = uploaded_json)
          => IsPrefix(LogOf(data), LogOf(data'))]_vars

\* C10 (as claimed): every save wrote to a path that held no file, not to the
\* file it was loaded from, and every saved revision is still on disk, at its
\* own path, with the content that was saved.
C10_SavesNeverOverwrite ==
    \A i \in DOMAIN saves :
        /\ saves[i].fresh
        /\ saves[i].path # saves[i].source
        /\ saves[i].path \in DOMAIN files
        /\ files[saves[i].path] = saves[i].content
        /\ \A j \in DOMAIN saves : j # i => saves[j].path # saves[i].path

LastEntry(d) == LogOf(d)[Len(LogOf(d))]

C22_DiffAgainstCommitted ==
    [][(pc = "run" /\ changes # <<>> /\ clock' = clock
         /\ uploaded_json' = uploaded_json /\ data' # None)
          => /\ ValuesOf(prev') = ValuesOf(data)
             /\ LogOf(prev') = LogOf(data)]_vars

C25_SaveNameFromOriginal ==
    \A i \in DOMAIN saves :
        \E name \in UploadNames, ts \in 0..Timestamp(clock) :
            saves[i].path = NewPath(name, ts)

C29_SavedLogsGrow ==
    \A i \in DOMAIN saves :
        i + 1 \in DOMAIN saves =>
            IsPrefix(LogOf(saves[i].content.obj), LogOf(saves[i + 1].content.obj))

---------------------------------------------------------------------------
(* Further claims about the editor, checked under SpecEditor *)

\* C27: in the entry a commit of render() appends, every Change has one of the
\* actions added, modified, deleted; old_value is null in every added Change
\* and new_value is null in every deleted Change.
C27_ChangeShape ==
    (pc = "rendered" /\ changes # <<>>) =>
        \A m \in DOMAIN LastEntry(data).changes :
            LET c == LastEntry(data).changes[m]
            IN  /\ c.action \in {"added", "modified", "deleted"}
                /\ c.action = "added" => c.old_value = None
                /\ c.action = "deleted" => c.new_value = None

C27_Witness ==
    /\ pc = "rendered"
    /\ Len(LogOf(data)) = Len(LogOf(prev)) + 1
    /\ \E m, n \in DOMAIN LastEntry(data).changes :
          /\ LastEntry(data).changes[m].action = "added"
          /\ LastEntry(data).changes[m].old_value = None
          /\ LastEntry(data).changes[n].action = "deleted"
          /\ LastEntry(data).changes[n].new_value = None

\* C28 (as claimed): a commit whose values differ from the values before it
\* appends an entry, and every row the reviewer did not touch (the row of the
\* table submitted as it was shown) is stored back as the item it was loaded
\* as.
C28_NoSilentChange ==
    Committed =>
        /\ ValuesOf(data) # ValuesOf(prev) =>
              ExtendsByOne(LogOf(data), LogOf(prev))
        /\ \A i \in DOMAIN PrevTable, j \in DOMAIN submitted.rows :
              submitted.rows[j] = PrevTable[i] =>
                  ValuesOf(data)[j] = ValuesOf(prev)[i]

\* C30 (as claimed): update_json_with_provenance leaves the json_data it was
\* given as it was before the call, its "_provenance" list included, whether
\* or not json_data had that key.
C30_UpdateLeavesArgument ==
    pc = "updated" => data = prev

---------------------------------------------------------------------------
(* Claims about two sessions, checked under SpecTwo *)

\* C18 (as claimed): whenever two sessions working on the same extraction file
\* have both saved, at whatever times, their saves went to different paths,
\* none of them onto an existing file, and each saved file still has the
\* content its session wrote.
C18_SessionsSaveApart ==
    \A i, j \in DOMAIN saves :
        saves[i].session # saves[j].session =>
            /\ saves[i].path # saves[j].path
            /\ saves[i].fresh
            /\ files[saves[i].path] = saves[i].content

====
